---- MODULE Spec2Model ----
(***************************************************************************)
(* Real-time presence and message delivery of the marketplace backend:     *)
(* the socket.io server of config/socket.js (presence registry, focus      *)
(* tracker, relays) and the REST message controller (send, delete,         *)
(* mark-as-read) that reads the two registries and pushes live events.     *)
(*                                                                         *)
(* Strings are modelled as sequences of tokens: a user id is the one-token *)
(* string <<u>>, and 'a_b' is the two-token string <<a, b>>, so that       *)
(* join('_') is concatenation and split('_') is the list of tokens.        *)
(***************************************************************************)
EXTENDS Integers, Sequences, FiniteSets, TLC

\* ------------------------------------------------------------------ bounds
\* A run is explored under one of three quotas, each wide in one dimension:
\* socket.io connections accepted over the whole run, messages created over
\* the whole run, and REST requests suspended at an await at the same time.
ManySockets == 3
FewSockets == 2
ManyMsgs == 2
FewMsgs == 1
ManyReqs == 2
FewReqs == 1

\* units of each product in stock at the start, and calls of the order
\* service over the whole run
InitStock == 2
MaxCalls == 3

Quotas == { [sockets |-> ManySockets, msgs |-> FewMsgs,  reqs |-> FewReqs],
            [sockets |-> FewSockets,  msgs |-> ManyMsgs, reqs |-> FewReqs],
            [sockets |-> FewSockets,  msgs |-> FewMsgs,  reqs |-> ManyReqs] }

\* ------------------------------------------------------------------ values
\* account ids; their order is the order of the id strings
Users == {1, 2, 3}
\* the accounts that open socket connections here; account 3 acts through
\* the REST API only
ConnectUsers == {1, 2}
\* the absent map entry / undefined
NoSocket == 0
NoUser == 0
NoMsg == 0
NoConv == << >>

SocketIds == 1..ManySockets
MsgIds == 1..ManyMsgs
ReqIds == 1..ManyReqs

\* the string of a user id
Str(u) == <<u>>

\* the rooms an emit can name: every io.to(...) of the server names a user id
\* (or a socket id, see InSocketRoom); membership of other rooms is never read
RoomNames == { Str(u) : u \in Users }

\* conversationId payloads a client sends with joinConversation and
\* leaveConversation: the conversation of users 1 and 2, and a second one
ConvPayloads == { <<1, 2>>, <<1, 3>> }

\* conversationId payloads where the relays are explored: the conversation
\* of users 1 and 2, and a string that is the id of user 2
RelayConvPayloads == { <<1, 2>>, <<2>> }

\* the sender field of the message a client sends with sendMessage
SenderPayloads == {1, 2}

\* recipientId payloads of the socket events typing, sendMessage and
\* deleteMessage
RecipientPayloads == {1, 2}

\* conversationId bodies of POST mark-as-read
ReadPayloads == { <<1, 2>> }

\* (sender, recipient) of the REST sends
SendPairs == { <<1, 2>>, <<2, 1>> }

\* credentials presented in socket.handshake.auth.token; userId is the id in
\* the token's payload
Tokens == { [kind |-> "missing", userId |-> NoUser] }
          \cup [kind : {"valid", "badsig", "expired"}, userId : ConnectUsers]

\* product ids: two products in the collection and an id that names none
Products == {1, 2}
MissingProduct == 3
NoOrder == 0
CallIds == 1..MaxCalls

\* an item of req.body.items
Item(p, q) == [product |-> p, quantity |-> q]

\* the items of the createOrder calls: one product or two, the second item
\* within the stock, beyond it, or naming no product
ItemPayloads == { <<Item(1, 1)>>, <<Item(1, 2)>>,
                  <<Item(1, 1), Item(2, 1)>>,
                  <<Item(1, 1), Item(2, InitStock + 1)>>,
                  <<Item(1, 1), Item(MissingProduct, 1)>> }
DeliveryMethods == {"meetup", "shipping"}

VARIABLES
  sockets,             \* socket id -> [st, userId, rooms]
  onlineUsers,         \* Map userId -> socket id (NoSocket: no entry)
  activeConversations, \* Map userId -> conversationId (NoConv: no entry)
  messages,            \* Message collection: id -> [st, sender, recipient, isRead, readAt]
  reqs,                \* REST requests suspended at an await
  emitted,             \* events delivered to connections by the last step
  lastOp,              \* the handler step that ran last, with its outcome
  quota,               \* the quota of the run, fixed by Init
  products,            \* Product collection: id -> [stock, status, orderCount, ships]
  orders,              \* Order collection: id of the creating call -> [st, items]
  calls                \* calls of the order service, each with its locals

vars == <<sockets, onlineUsers, activeConversations, messages, reqs, emitted,
          lastOp, quota, products, orders, calls>>

\* the state of the chat side and the state of the order service
chatVars == <<sockets, onlineUsers, activeConversations, messages, reqs, emitted,
              lastOp, quota>>
orderVars == <<products, orders, calls>>

\* ------------------------------------------------------------------ helpers
FreeSocket == [st |-> "free", userId |-> NoUser, rooms |-> {}]
\* a disconnected socket: out of every room, its userId still on the object
ClosedSocket(sock) == [st |-> "closed", userId |-> sock.userId, rooms |-> {}]
NoMessage == [st |-> "none", sender |-> NoUser, recipient |-> NoUser,
              isRead |-> FALSE, readAt |-> FALSE]
IdleReq == [pc |-> "idle", msg |-> NoMsg, focus |-> NoConv]

Live == { s \in SocketIds : sockets[s].st = "live" }
\* what the run has used of its quota
SocketsUsed == Cardinality({ s \in SocketIds : sockets[s].st # "free" })
MsgsUsed == Cardinality({ m \in MsgIds : messages[m].st # "none" })
ReqsUsed == Cardinality({ r \in ReqIds : reqs[r].pc # "idle" })
LiveIn(socks, u) == { s \in SocketIds : socks[s].st = "live" /\ socks[s].userId = u }
LiveOf(u) == LiveIn(sockets, u)

\* Array.from(onlineUsers.keys())
OnlineKeys(m) == { u \in Users : m[u] # NoSocket }

\* onlineUsers.get(key): undefined for a key that is no user id
MapGet(m, key) == IF key \in DOMAIN m THEN m[key] ELSE NoSocket

\* an event as a connection receives it
Event(name, to, by, conv, ids, users, msg, isRead, via) ==
  [ev |-> name, to |-> to, by |-> by, conv |-> conv, ids |-> ids,
   users |-> users, msg |-> msg, isRead |-> isRead, via |-> via]

\* a broadcast sent before the handler has updated the registry
BroadcastBeforeUpdate(socks, keys, via) ==
  { Event("onlineUsers", t, NoUser, NoConv, {}, OnlineKeys(onlineUsers), NoMsg, FALSE, via) :
      t \in { s \in SocketIds : socks[s].st = "live" } }

\* io.emit('onlineUsers', keys): every connected socket
Broadcast(socks, keys, via) ==
  { Event("onlineUsers", t, NoUser, NoConv, {}, keys, NoMsg, FALSE, via) :
      t \in { s \in SocketIds : socks[s].st = "live" } }

\* the sockets io.to(room) reaches: the members of the room
InRoom(room) == { s \in Live : room \in sockets[s].rooms }

\* the sockets io.to(socketId) reaches: a socket is the one member of the
\* room named by its own id
InSocketRoom(sid) == { s \in Live : s = sid }

\* what lastOp records of a step: the handler, the socket and user it ran
\* for, its conversation id (the payload of join, leave and mark-as-read, the
\* focus a disconnect found, the recipient's focus a send read), its message,
\* the response, the credential of a connection attempt, the email outcome
Op(name, sock, user, arg, msg, status, tok, email) ==
  [op |-> name, sock |-> sock, userId |-> user, arg |-> arg, msg |-> msg,
   status |-> status, tok |-> tok, email |-> email]
SocketOp(name, sock, user, arg) == Op(name, sock, user, arg, NoMsg, "none", "none", FALSE)
RestOp(name, user, arg, msg, status, email) ==
  Op(name, NoSocket, user, arg, msg, status, "none", email)

\* ------------------------------------------------------------------ socket.io
\* a verification that leaves out the expiry check
JwtVerifyIgnoringExpiry(tok) == tok.kind \in {"valid", "expired"}

\* jwt.verify(token, secret): throws unless the token is present, signed and
\* unexpired
JwtVerify(tok) == tok.kind = "valid"

\* io.use middleware: next() on success, next(Error) otherwise
AuthMiddleware(tok) ==
  IF JwtVerify(tok) THEN [ok |-> TRUE, userId |-> tok.userId]
  ELSE [ok |-> FALSE, userId |-> NoUser]

\* the id socket.io gives the next connection
NextSocketId == CHOOSE s \in SocketIds :
  sockets[s].st = "free" /\ \A t \in SocketIds : sockets[t].st = "free" => s <= t

\* a connection attempt: the middleware, then io.on('connection')
OnConnection(tok) ==
  LET a == AuthMiddleware(tok) IN
  IF ~a.ok
  THEN /\ lastOp' = Op("connectRejected", NoSocket, NoUser, NoConv, NoMsg,
                       "Authentication error", tok.kind, FALSE)
       /\ emitted' = {}
       /\ UNCHANGED <<sockets, onlineUsers, activeConversations, messages, reqs, quota, orderVars>>
  ELSE /\ SocketsUsed < quota.sockets
       /\ LET s == NextSocketId
              socks == [sockets EXCEPT ![s] =
                          [st |-> "live", userId |-> a.userId, rooms |-> {Str(a.userId)}]]
              online == [onlineUsers EXCEPT ![a.userId] = s]
          IN /\ sockets' = socks
             /\ onlineUsers' = online
             /\ emitted' = Broadcast(socks, OnlineKeys(online), "connection")
             /\ lastOp' = Op("connection", s, a.userId, NoConv, NoMsg, "none",
                             tok.kind, FALSE)
       /\ UNCHANGED <<activeConversations, messages, reqs, quota, orderVars>>

\* socket.on('joinConversation')
OnJoinConversation(s, c) ==
  /\ sockets[s].st = "live"
  /\ sockets' = [sockets EXCEPT ![s].rooms = @ \cup ({c} \cap RoomNames)]
  /\ activeConversations' = [activeConversations EXCEPT ![sockets[s].userId] = c]
  /\ emitted' = {}
  /\ lastOp' = SocketOp("joinConversation", s, sockets[s].userId, c)
  /\ UNCHANGED <<onlineUsers, messages, reqs, quota, orderVars>>

\* activeConversations after leaveConversation({conversationId: c}) of user u
LeaveFocus(u, c) == [activeConversations EXCEPT ![u] = NoConv]

\* socket.on('leaveConversation')
OnLeaveConversation(s, c) ==
  /\ sockets[s].st = "live"
  /\ sockets' = [sockets EXCEPT ![s].rooms = @ \ {c}]
  /\ activeConversations' = LeaveFocus(sockets[s].userId, c)
  /\ emitted' = {}
  /\ lastOp' = SocketOp("leaveConversation", s, sockets[s].userId, c)
  /\ UNCHANGED <<onlineUsers, messages, reqs, quota, orderVars>>

\* a disconnect that deletes the registry entry only when it closes the
\* user's last connection
DisconnectOnlineIfLast(u) ==
  IF Cardinality(LiveOf(u)) > 1 THEN onlineUsers ELSE [onlineUsers EXCEPT ![u] = NoSocket]

\* a disconnect that leaves the registry entry in place
DisconnectOnlineKept(u) == onlineUsers

\* onlineUsers after the disconnect of a socket of user u
DisconnectOnline(u) == [onlineUsers EXCEPT ![u] = NoSocket]

\* a disconnect that leaves the focus map alone
DisconnectFocusKept(u) == activeConversations

\* activeConversations after the disconnect of a socket of user u
DisconnectFocus(u) == [activeConversations EXCEPT ![u] = NoConv]

\* socket.on('disconnect'): socket.io has taken the socket out of its rooms
OnDisconnect(s) ==
  /\ sockets[s].st = "live"
  /\ LET u == sockets[s].userId
         socks == [sockets EXCEPT ![s] = ClosedSocket(sockets[s])]
         online == DisconnectOnline(u)
     IN /\ sockets' = socks
        /\ onlineUsers' = online
        /\ activeConversations' = DisconnectFocus(u)
        /\ emitted' = Broadcast(socks, OnlineKeys(online), "disconnect")
        /\ lastOp' = SocketOp("disconnect", s, u, activeConversations[u])
  /\ UNCHANGED <<messages, reqs, quota, orderVars>>

\* ------------------------------------------------------------------ strings
\* the two ids in the order given, without the sort
UnsortedPair(a, b) == <<a, b>>

\* [a, b].sort(): the two id strings in string order
SortPair(a, b) == IF a <= b THEN <<a, b>> ELSE <<b, a>>

\* arr.join('_') of an array of id strings
JoinUnderscore(arr) == IF Len(arr) = 0 THEN << >>
                       ELSE IF Len(arr) = 1 THEN Str(arr[1])
                       ELSE Str(arr[1]) \o Str(arr[2])

\* [senderId, recipient].sort().join('_')
ConversationId(a, b) == JoinUnderscore(SortPair(a, b))

\* const [user1, user2] = conversationId.split('_')
SplitUser1(c) == IF Len(c) >= 1 THEN c[1] ELSE NoUser
SplitUser2(c) == IF Len(c) >= 2 THEN c[2] ELSE NoUser

\* an exclusion with its branches exchanged: it picks the caller
SameUserId(c, userId) ==
  IF SplitUser1(c) = userId THEN SplitUser1(c) ELSE SplitUser2(c)

\* user1 === userId ? user2 : user1
OtherUserId(c, userId) ==
  IF SplitUser1(c) = userId THEN SplitUser2(c) ELSE SplitUser1(c)

\* ------------------------------------------------------------------ relays
\* socket.on('typing'): the signal goes to the room named by the payload's
\* recipientId and carries the socket's own userId
OnTyping(s, c, recipientId, isTyping) ==
  /\ sockets[s].st = "live"
  /\ emitted' = { Event("userTyping", t, sockets[s].userId, c, {}, {}, NoMsg,
                         isTyping, "socket") : t \in InRoom(Str(recipientId)) }
  /\ lastOp' = SocketOp("typing", s, sockets[s].userId, Str(recipientId))
  /\ UNCHANGED <<sockets, onlineUsers, activeConversations, messages, reqs, quota, orderVars>>

\* socket.on('markAsRead'): messagesRead, without message ids, to the room
\* named by the other id of the payload's conversationId; the store is not
\* touched
OnSocketMarkAsRead(s, c) ==
  /\ sockets[s].st = "live"
  /\ LET otherUserId == OtherUserId(c, sockets[s].userId)
     IN emitted' = { Event("messagesRead", t, sockets[s].userId, c, {}, {}, NoMsg,
                           FALSE, "socket") : t \in InRoom(Str(otherUserId)) }
  /\ lastOp' = SocketOp("socketMarkAsRead", s, sockets[s].userId, c)
  /\ UNCHANGED <<sockets, onlineUsers, activeConversations, messages, reqs, quota, orderVars>>

\* socket.on('sendMessage'): the payload goes as newMessage to the room named
\* by its recipient field and comes back to the socket as messageSent
OnSocketSendMessage(s, m, sender, recipient) ==
  /\ sockets[s].st = "live"
  /\ emitted' = { Event("newMessage", t, sender, NoConv, {}, {}, m, FALSE, "socket") :
                    t \in InRoom(Str(recipient)) }
                 \cup { Event("messageSent", s, sender, NoConv, {}, {}, m, FALSE, "socket") }
  /\ lastOp' = Op("socketSendMessage", s, sockets[s].userId, Str(recipient), m,
                  "none", "none", FALSE)
  /\ UNCHANGED <<sockets, onlineUsers, activeConversations, messages, reqs, quota, orderVars>>

\* socket.on('deleteMessage'): messageDeleted with the payload's messageId to
\* the room named by the payload's recipientId
OnSocketDeleteMessage(s, m, recipientId) ==
  /\ sockets[s].st = "live"
  /\ emitted' = { Event("messageDeleted", t, NoUser, NoConv, {}, {}, m, FALSE, "socket") :
                    t \in InRoom(Str(recipientId)) }
  /\ lastOp' = Op("socketDeleteMessage", s, sockets[s].userId, Str(recipientId), m,
                  "none", "none", FALSE)
  /\ UNCHANGED <<sockets, onlineUsers, activeConversations, messages, reqs, quota, orderVars>>

\* ------------------------------------------------------------------ Message model
\* the document Message.create stores: isRead and readAt start unset
NewMessage(a, b) == [st |-> "stored", sender |-> a, recipient |-> b,
                     isRead |-> FALSE, readAt |-> FALSE]

\* the ids Message.markConversationAsRead(conversationId, userId) flips: the
\* unread messages of the conversation that are addressed to userId
UnreadIds(c, userId) ==
  { m \in MsgIds : /\ messages[m].st = "stored"
                   /\ ConversationId(messages[m].sender, messages[m].recipient) = c
                   /\ messages[m].recipient = userId
                   /\ ~messages[m].isRead }

\* the collection after Message.markConversationAsRead(conversationId, userId)
MarkConversationAsRead(c, userId) ==
  [m \in MsgIds |-> IF m \in UnreadIds(c, userId)
                    THEN [messages[m] EXCEPT !.isRead = TRUE, !.readAt = TRUE]
                    ELSE messages[m]]

\* ------------------------------------------------------------------ REST
\* the message controller names AppError without importing it, so evaluating
\* 'new AppError(...)' there raises a ReferenceError
AppErrorImported == FALSE

\* what 'throw new AppError(message, code)' hands to the error middleware
ThrowAppError(code) == IF AppErrorImported THEN code ELSE "ReferenceError"

\* the id of the next created document
NextMsgId == CHOOSE m \in MsgIds :
  messages[m].st = "none" /\ \A k \in MsgIds : messages[k].st = "none" => m <= k

\* the slot of the next suspended request
NextReq == CHOOSE r \in ReqIds :
  reqs[r].pc = "idle" /\ \A k \in ReqIds : reqs[k].pc = "idle" => r <= k

\* a check that takes any focus of the recipient for this conversation
IsViewingAnyConversation(focus, conv) == focus # NoConv

\* recipientActiveConversation === conversationId
IsRecipientViewingConversation(focus, conv) == focus = conv

\* a send that reports the failure of the notification email
SendResponseFailingOnEmail(emailOk) == IF emailOk THEN "201" ELSE "EmailError"

\* the response after the email block: its try/catch logs a failure of the
\* user lookups or of sendNewMessageEmail and falls through to the 201
SendResponse(emailOk) == "201"

\* an emit that returns only once the recipient's connection has taken the
\* event: it never returns while the registry names a connection
EmitWaitsForRecipient(recipientSocketId) == recipientSocketId = NoSocket

\* io.to(socketId).emit(...) hands the packet to the adapter and returns: the
\* handler goes on whatever the state of the target connection
EmitReturns(recipientSocketId) == TRUE

\* the emits of sendMessage: newMessage to the recipient's registered socket
\* and, when the message was auto-marked read, messagesRead to the sender's
SendEmits(m, a, b, conv, docIsRead, viewing) ==
  LET recipientSocketId == MapGet(onlineUsers, b)
      senderSocketId == MapGet(onlineUsers, a)
  IN IF recipientSocketId = NoSocket THEN {}
     ELSE { Event("newMessage", t, a, conv, {}, {}, m, docIsRead, "rest") :
              t \in InSocketRoom(recipientSocketId) }
          \cup
          (IF viewing /\ senderSocketId # NoSocket
           THEN { Event("messagesRead", t, b, conv, {m}, {}, NoMsg, FALSE, "rest") :
                    t \in InSocketRoom(senderSocketId) }
           ELSE {})

\* sendMessage up to 'await Message.create(messageData)'
SendCreate(a, b, dbOk) ==
  /\ MsgsUsed < quota.msgs
  /\ ReqsUsed < quota.reqs
  /\ emitted' = {}
  /\ IF dbOk
     THEN /\ messages' = [messages EXCEPT ![NextMsgId] = NewMessage(a, b)]
          /\ reqs' = [reqs EXCEPT ![NextReq] =
                        [pc |-> "populate", msg |-> NextMsgId, focus |-> NoConv]]
          /\ lastOp' = RestOp("sendCreate", a, NoConv, NextMsgId, "pending", FALSE)
     ELSE /\ lastOp' = RestOp("sendCreate", a, NoConv, NoMsg, "DbError", FALSE)
          /\ UNCHANGED <<messages, reqs, quota, orderVars>>
  /\ UNCHANGED <<sockets, onlineUsers, activeConversations, quota, orderVars>>

\* sendMessage after populate: the focus check, and when the recipient is not
\* viewing the conversation the emits, the email and the response
SendCheck(r, emailOk) ==
  /\ reqs[r].pc = "populate"
  /\ LET m == reqs[r].msg
         a == messages[m].sender
         b == messages[m].recipient
         conversationId == ConversationId(a, b)
         recipientActiveConversation == activeConversations[b]
     IN IF IsRecipientViewingConversation(recipientActiveConversation, conversationId)
        THEN /\ reqs' = [reqs EXCEPT ![r] =
                           [pc |-> "save", msg |-> m, focus |-> recipientActiveConversation]]
             /\ emitted' = {}
             /\ lastOp' = RestOp("sendCheck", a, recipientActiveConversation, m,
                                 "pending", FALSE)
        ELSE /\ EmitReturns(MapGet(onlineUsers, b))
             /\ reqs' = [reqs EXCEPT ![r] = IdleReq]
             /\ emitted' = SendEmits(m, a, b, conversationId, FALSE, FALSE)
             /\ lastOp' = RestOp("sendCheck", a, recipientActiveConversation, m,
                                 SendResponse(emailOk), emailOk)
  /\ UNCHANGED <<sockets, onlineUsers, activeConversations, messages, quota, orderVars>>

\* sendMessage after 'await message.save()': the emits, the email and the
\* response; a failed save goes to the error middleware
SendSaved(r, dbOk, emailOk) ==
  /\ reqs[r].pc = "save"
  /\ LET m == reqs[r].msg
         a == messages[m].sender
         b == messages[m].recipient
         conversationId == ConversationId(a, b)
     IN IF dbOk /\ messages[m].st = "stored"
        THEN /\ EmitReturns(MapGet(onlineUsers, b))
             /\ messages' = [messages EXCEPT ![m].isRead = TRUE, ![m].readAt = TRUE]
             /\ emitted' = SendEmits(m, a, b, conversationId, TRUE, TRUE)
             /\ lastOp' = RestOp("sendSaved", a, reqs[r].focus, m,
                                 SendResponse(emailOk), emailOk)
        ELSE /\ emitted' = {}
             /\ lastOp' = RestOp("sendSaved", a, reqs[r].focus, m, "DbError", FALSE)
             /\ UNCHANGED messages
  /\ reqs' = [reqs EXCEPT ![r] = IdleReq]
  /\ UNCHANGED <<sockets, onlineUsers, activeConversations, quota, orderVars>>

\* deleteMessage up to 'await message.deleteOne()': findById and the two checks
DeleteFind(userId, m) ==
  /\ ReqsUsed < quota.reqs
  /\ emitted' = {}
  /\ IF messages[m].st # "stored"
     THEN /\ lastOp' = RestOp("deleteMessage", userId, NoConv, m,
                              ThrowAppError("404"), FALSE)
          /\ UNCHANGED reqs
     ELSE IF messages[m].sender # userId
     THEN /\ lastOp' = RestOp("deleteMessage", userId, NoConv, m,
                              ThrowAppError("403"), FALSE)
          /\ UNCHANGED reqs
     ELSE /\ lastOp' = RestOp("deleteMessage", userId, NoConv, m, "pending", FALSE)
          /\ reqs' = [reqs EXCEPT ![NextReq] =
                        [pc |-> "deleteOne", msg |-> m, focus |-> NoConv]]
  /\ UNCHANGED <<sockets, onlineUsers, activeConversations, messages, quota, orderVars>>

\* deleteMessage after deleteOne: the emit and the response
DeleteDone(r) ==
  /\ reqs[r].pc = "deleteOne"
  /\ LET m == reqs[r].msg
         recipientSocketId == MapGet(onlineUsers, messages[m].recipient)
     IN /\ messages' = [messages EXCEPT ![m].st = "deleted",
                                        ![m].isRead = FALSE, ![m].readAt = FALSE]
        /\ emitted' = IF recipientSocketId = NoSocket THEN {}
                      ELSE { Event("messageDeleted", t, NoUser, NoConv, {}, {}, m,
                                   FALSE, "rest") : t \in InSocketRoom(recipientSocketId) }
        /\ lastOp' = RestOp("deleteDone", messages[m].sender, NoConv, m, "200", FALSE)
  /\ reqs' = [reqs EXCEPT ![r] = IdleReq]
  /\ UNCHANGED <<sockets, onlineUsers, activeConversations, quota, orderVars>>

\* the emit of markAsRead
MarkAsReadEmits(userId, c, messageIds) ==
  LET senderSocketId == MapGet(onlineUsers, OtherUserId(c, userId))
  IN IF senderSocketId = NoSocket THEN {}
     ELSE { Event("messagesRead", t, userId, c, messageIds, {}, NoMsg, FALSE, "rest") :
              t \in InSocketRoom(senderSocketId) }

\* markAsRead (REST)
MarkAsRead(userId, c) ==
  /\ messages' = MarkConversationAsRead(c, userId)
  /\ emitted' = MarkAsReadEmits(userId, c, UnreadIds(c, userId))
  /\ lastOp' = RestOp("markAsRead", userId, c, NoMsg, "200", FALSE)
  /\ UNCHANGED <<sockets, onlineUsers, activeConversations, reqs, quota, orderVars>>

\* ------------------------------------------------------------------ order service
NoOrderDoc == [st |-> "none", items |-> << >>]
IdleCall == [pc |-> "idle", kind |-> "none", items |-> << >>, method |-> "none",
             i |-> 0, docs |-> << >>, orderItems |-> << >>, order |-> NoOrder]

\* the slot of the next call
NextCall == CHOOSE r \in CallIds :
  calls[r].pc = "idle" /\ \A k \in CallIds : calls[k].pc = "idle" => r <= k

\* Product.findById(id): null for an id that names no product
FindProduct(id) == IF id \in Products THEN products[id] ELSE [stock |-> 0, status |-> "null",
                                                             orderCount |-> 0, ships |-> FALSE]

\* product.decrementStock(quantity) on the document in memory, before save():
\* this.stock -= quantity, and status 'sold' at stock 0
DecrementStock(doc, quantity) ==
  [stock |-> doc.stock - quantity,
   status |-> IF doc.stock - quantity = 0 THEN "sold" ELSE doc.status]

\* product.incrementStock(quantity) on the document in memory, before save():
\* this.stock += quantity, and a sold product with stock becomes active
IncrementStock(doc, quantity) ==
  [stock |-> doc.stock + quantity,
   status |-> IF doc.status = "sold" /\ doc.stock + quantity > 0 THEN "active"
              ELSE doc.status]

\* doc.save(): $set of the document's stock and status on the stored product
SaveProduct(p, doc) ==
  [products EXCEPT ![p].stock = doc.stock, ![p].status = doc.status]

\* createOrder up to its first await: the items and the delivery method pass
\* the argument checks
CreateOrderCall(items, method) ==
  /\ \E r \in CallIds : calls[r].pc = "idle"
  /\ calls' = [calls EXCEPT ![NextCall] =
                 [IdleCall EXCEPT !.pc = "find", !.kind = "create", !.items = items,
                                  !.method = method, !.i = 1]]
  /\ UNCHANGED <<products, orders, chatVars>>

\* createOrder after 'await Product.findById(item.product)': the checks of
\* the item, the seller lookup, orderItems.push and the call of decrementStock
CreateFind(r) ==
  /\ calls[r].pc = "find"
  /\ LET item == calls[r].items[calls[r].i]
         product == FindProduct(item.product)
     IN IF \/ product.status # "active"
           \/ product.stock < item.quantity
           \/ calls[r].method = "shipping" /\ ~product.ships
        THEN calls' = [calls EXCEPT ![r].pc = "failed"]
        ELSE calls' = [calls EXCEPT
                         ![r].pc = "save",
                         ![r].docs = << DecrementStock(product, item.quantity) >>,
                         ![r].orderItems = Append(@, item)]
  /\ UNCHANGED <<products, orders, chatVars>>

\* createOrder after the save() of decrementStock
CreateSave(r) ==
  /\ calls[r].pc = "save"
  /\ products' = SaveProduct(calls[r].items[calls[r].i].product, calls[r].docs[1])
  /\ calls' = [calls EXCEPT ![r].pc = "inc", ![r].docs = << >>]
  /\ UNCHANGED <<orders, chatVars>>

\* createOrder after 'await Product.findByIdAndUpdate(id, {$inc: {orderCount: 1}})':
\* the next item, or Order.create after the last
CreateInc(r) ==
  /\ calls[r].pc = "inc"
  /\ products' = [products EXCEPT ![calls[r].items[calls[r].i].product].orderCount = @ + 1]
  /\ calls' = [calls EXCEPT ![r].i = @ + 1,
                            ![r].pc = IF calls[r].i < Len(calls[r].items) THEN "find"
                                      ELSE "create"]
  /\ UNCHANGED <<orders, chatVars>>

\* createOrder after 'await Order.create(...)'
CreateOrderDoc(r) ==
  /\ calls[r].pc = "create"
  /\ orders' = [orders EXCEPT ![r] = [st |-> "pending", items |-> calls[r].orderItems]]
  /\ calls' = [calls EXCEPT ![r].pc = "done", ![r].order = r]
  /\ UNCHANGED <<products, chatVars>>

\* cancelOrder(o) by the buyer after 'await Order.findById(o).populate(...)':
\* the order and its products as read, and canBeCancelled()
CancelOrderCall(o) ==
  /\ \E r \in CallIds : calls[r].pc = "idle"
  /\ IF orders[o].st # "pending"
     THEN calls' = [calls EXCEPT ![NextCall] =
                      [IdleCall EXCEPT !.pc = "failed", !.kind = "cancel", !.order = o]]
     ELSE calls' = [calls EXCEPT ![NextCall] =
                      [IdleCall EXCEPT
                         !.pc = "restore", !.kind = "cancel", !.order = o, !.i = 1,
                         !.items = orders[o].items,
                         !.docs = [k \in 1..Len(orders[o].items) |->
                                     [stock |-> products[orders[o].items[k].product].stock,
                                      status |-> products[orders[o].items[k].product].status]]]]
  /\ UNCHANGED <<products, orders, chatVars>>

\* cancelOrder after the save() of incrementStock for one item
CancelRestore(r) ==
  /\ calls[r].pc = "restore"
  /\ LET item == calls[r].items[calls[r].i]
         doc == calls[r].docs[calls[r].i]
     IN products' = SaveProduct(item.product, IncrementStock(doc, item.quantity))
  /\ calls' = [calls EXCEPT ![r].i = @ + 1,
                            ![r].pc = IF calls[r].i < Len(calls[r].items) THEN "restore"
                                      ELSE "cancelSave"]
  /\ UNCHANGED <<orders, chatVars>>

\* cancelOrder after the save() of order.cancelOrder(userId, reason)
CancelSave(r) ==
  /\ calls[r].pc = "cancelSave"
  /\ orders' = [orders EXCEPT ![calls[r].order].st = "cancelled"]
  /\ calls' = [calls EXCEPT ![r].pc = "done"]
  /\ UNCHANGED <<products, chatVars>>

\* ------------------------------------------------------------------ system
\* the order service at rest with the products p
InitOrderState(p) ==
  /\ products = p
  /\ orders = [o \in CallIds |-> NoOrderDoc]
  /\ calls = [r \in CallIds |-> IdleCall]

\* two active products in stock whose sellers ship
ActiveProducts == [p \in Products |-> [stock |-> InitStock, status |-> "active",
                                      orderCount |-> 0, ships |-> TRUE]]

\* the server after start: no connection, empty maps, empty collection
InitChatState ==
  /\ sockets = [s \in SocketIds |-> FreeSocket]
  /\ onlineUsers = [u \in Users |-> NoSocket]
  /\ activeConversations = [u \in Users |-> NoConv]
  /\ messages = [m \in MsgIds |-> NoMessage]
  /\ reqs = [r \in ReqIds |-> IdleReq]
  /\ emitted = {}
  /\ lastOp = SocketOp("init", NoSocket, NoUser, NoConv)

InitState == InitChatState /\ InitOrderState(ActiveProducts)

Init == InitState /\ quota \in Quotas

Next ==
  \/ \E tok \in Tokens : OnConnection(tok)
  \/ \E s \in SocketIds, c \in ConvPayloads : OnJoinConversation(s, c)
  \/ \E s \in SocketIds, c \in ConvPayloads : OnLeaveConversation(s, c)
  \/ \E s \in SocketIds : OnDisconnect(s)
  \/ \E p \in SendPairs, dbOk \in BOOLEAN : SendCreate(p[1], p[2], dbOk)
  \/ \E r \in ReqIds, emailOk \in BOOLEAN : SendCheck(r, emailOk)
  \/ \E r \in ReqIds, dbOk \in BOOLEAN, emailOk \in BOOLEAN : SendSaved(r, dbOk, emailOk)
  \/ \E u \in Users, m \in MsgIds : DeleteFind(u, m)
  \/ \E r \in ReqIds : DeleteDone(r)
  \/ \E u \in Users, c \in ReadPayloads : MarkAsRead(u, c)

Spec == Init /\ [][Next]_vars

\* the handlers under the scheduling of the event loop: the continuation of
\* a send runs once the database operation it awaits has settled
InitFair == InitState /\ quota = [sockets |-> FewSockets, msgs |-> FewMsgs, reqs |-> FewReqs]

SpecFair ==
  /\ InitFair
  /\ [][Next]_vars
  /\ WF_vars(\E r \in ReqIds, emailOk \in BOOLEAN : SendCheck(r, emailOk))
  /\ WF_vars(\E r \in ReqIds, dbOk \in BOOLEAN, emailOk \in BOOLEAN : SendSaved(r, dbOk, emailOk))

\* the order service: the second product active or paused, its seller
\* shipping or not
InitOrders ==
  /\ InitChatState
  /\ quota = [sockets |-> FewSockets, msgs |-> FewMsgs, reqs |-> FewReqs]
  /\ \E st \in {"active", "paused"}, ships \in BOOLEAN :
        InitOrderState([ActiveProducts EXCEPT ![2].status = st, ![2].ships = ships])

NextOrders ==
  \/ \E items \in ItemPayloads, method \in DeliveryMethods : CreateOrderCall(items, method)
  \/ \E r \in CallIds : CreateFind(r)
  \/ \E r \in CallIds : CreateSave(r)
  \/ \E r \in CallIds : CreateInc(r)
  \/ \E r \in CallIds : CreateOrderDoc(r)
  \/ \E o \in CallIds : CancelOrderCall(o)
  \/ \E r \in CallIds : CancelRestore(r)
  \/ \E r \in CallIds : CancelSave(r)

SpecOrders == InitOrders /\ [][NextOrders]_vars

\* the relays of the socket server next to the REST handlers, explored with
\* two connections, one message and one suspended request
InitRelay == InitFair

NextRelay ==
  \/ \E tok \in Tokens : OnConnection(tok)
  \/ \E s \in SocketIds, c \in RelayConvPayloads : OnJoinConversation(s, c)
  \/ \E s \in SocketIds, c \in RelayConvPayloads : OnLeaveConversation(s, c)
  \/ \E s \in SocketIds : OnDisconnect(s)
  \/ \E s \in SocketIds, c \in ReadPayloads, to \in RecipientPayloads, isTyping \in BOOLEAN :
        OnTyping(s, c, to, isTyping)
  \/ \E s \in SocketIds, c \in ReadPayloads : OnSocketMarkAsRead(s, c)
  \/ \E s \in SocketIds, m \in MsgIds, from \in SenderPayloads, to \in RecipientPayloads :
        OnSocketSendMessage(s, m, from, to)
  \/ \E s \in SocketIds, m \in MsgIds, to \in RecipientPayloads :
        OnSocketDeleteMessage(s, m, to)
  \/ \E p \in SendPairs, dbOk \in BOOLEAN : SendCreate(p[1], p[2], dbOk)
  \/ \E r \in ReqIds, emailOk \in BOOLEAN : SendCheck(r, emailOk)
  \/ \E r \in ReqIds, dbOk \in BOOLEAN, emailOk \in BOOLEAN : SendSaved(r, dbOk, emailOk)
  \/ \E u \in Users, m \in MsgIds : DeleteFind(u, m)
  \/ \E r \in ReqIds : DeleteDone(r)
  \/ \E u \in Users, c \in ReadPayloads : MarkAsRead(u, c)

SpecRelay == InitRelay /\ [][NextRelay]_vars

\* ------------------------------------------------------------------ properties
SendOps == {"sendCheck", "sendSaved"}
SenderOf(m) == messages[m].sender
RecipientOf(m) == messages[m].recipient
Receipts(evs) == { e \in evs : e.ev = "messagesRead" }

\* C1: when one of several live connections of an identity disconnects, the
\* identity stays in the registry and in the onlineUsers broadcast that follows
C1_PresenceSurvivesPartialDisconnect ==
  (lastOp.op = "disconnect" /\ LiveOf(lastOp.userId) # {}) =>
      /\ onlineUsers[lastOp.userId] # NoSocket
      /\ \A e \in emitted : e.ev = "onlineUsers" => lastOp.userId \in e.users

\* C2: the disconnect of one connection leaves the identity's focus as it was
\* while another connection of the identity remains
C2_FocusSurvivesPartialDisconnect ==
  (lastOp.op = "disconnect" /\ LiveOf(lastOp.userId) # {}) =>
      activeConversations[lastOp.userId] = lastOp.arg

\* C3: a send that found the recipient focused on the conversation stores the
\* message read and, if the sender is online, delivers it a messagesRead
\* event naming the recipient and the message
C3_FocusedSendIsReadAndReceipted ==
  (/\ lastOp.op \in SendOps
   /\ lastOp.status = "201"
   /\ lastOp.arg = ConversationId(SenderOf(lastOp.msg), RecipientOf(lastOp.msg))) =>
      /\ messages[lastOp.msg].st = "stored"
      /\ messages[lastOp.msg].isRead
      /\ messages[lastOp.msg].readAt
      /\ onlineUsers[SenderOf(lastOp.msg)] # NoSocket =>
           \E e \in Receipts(emitted) :
              /\ e.by = RecipientOf(lastOp.msg)
              /\ lastOp.msg \in e.ids
              /\ sockets[e.to].userId = SenderOf(lastOp.msg)

\* C4: a send that found the recipient's focus absent or on another
\* conversation does not write the message's read flag, pushes the message as
\* unread and delivers no messagesRead event; the message is created unread,
\* and a stored message becomes read only by a send that found the recipient
\* focused on its conversation or by the recipient's own mark-as-read
C4_UnfocusedSendStaysUnread ==
  [][ /\ (/\ lastOp'.op \in SendOps
          /\ lastOp'.arg # ConversationId(SenderOf(lastOp'.msg), RecipientOf(lastOp'.msg))) =>
             /\ messages'[lastOp'.msg] = messages[lastOp'.msg]
             /\ Receipts(emitted') = {}
             /\ \A e \in emitted' : e.ev = "newMessage" => ~e.isRead
      /\ \A m \in MsgIds :
           /\ (messages[m].st = "none" /\ messages'[m].st = "stored") => ~messages'[m].isRead
           /\ (messages[m].st = "stored" /\ ~messages[m].isRead /\ messages'[m].isRead) =>
                \/ /\ lastOp'.op = "sendSaved"
                   /\ lastOp'.msg = m
                   /\ lastOp'.arg = ConversationId(SenderOf(m), RecipientOf(m))
                \/ /\ lastOp'.op = "markAsRead"
                   /\ lastOp'.userId = RecipientOf(m) ]_vars

C4_Witness ==
  /\ lastOp.op = "sendCheck"
  /\ lastOp.status = "201"
  /\ lastOp.arg = <<1, 3>>
  /\ ~messages[lastOp.msg].isRead
  /\ \E e \in emitted : e.ev = "newMessage" /\ e.msg = lastOp.msg

\* C5: mark-as-read on a conversation in which the reader has nothing unread
\* writes nothing and delivers no messagesRead event
C5_MarkReadIdempotent ==
  [][ (lastOp'.op = "markAsRead" /\ UnreadIds(lastOp'.arg, lastOp'.userId) = {}) =>
          /\ messages' = messages
          /\ Receipts(emitted') = {} ]_vars

\* C6: a delete by a requester who is not the sender fails with the
\* authorization error, changes no state and delivers no event
C6_NonSenderDeleteRejected ==
  [][ (/\ lastOp'.op = "deleteMessage"
       /\ messages[lastOp'.msg].st = "stored"
       /\ SenderOf(lastOp'.msg) # lastOp'.userId) =>
          /\ lastOp'.status = "403"
          /\ messages' = messages
          /\ reqs' = reqs
          /\ onlineUsers' = onlineUsers
          /\ activeConversations' = activeConversations
          /\ emitted' = {} ]_vars

\* C7: a connection attempt without a valid credential changes neither the
\* sockets, the registry nor the focus map and broadcasts nothing, and every
\* connected socket carries the id of a verified token
C7_FailedAuthMutatesNothing ==
  [][ /\ (lastOp'.op \in {"connection", "connectRejected"} /\ lastOp'.tok # "valid") =>
            /\ sockets' = sockets
            /\ onlineUsers' = onlineUsers
            /\ activeConversations' = activeConversations
            /\ emitted' = {}
      /\ \A s \in SocketIds : sockets'[s].st = "live" => sockets'[s].userId \in Users ]_vars

C7_Witness ==
  /\ lastOp.op = "connectRejected"
  /\ lastOp.tok = "expired"
  /\ Live # {}
  /\ \E u \in Users : activeConversations[u] # NoConv

\* C8: an identity is in the registry exactly when it has a live connection
C8_OnlineIffLiveConnection ==
  \A u \in Users : onlineUsers[u] # NoSocket <=> LiveOf(u) # {}

\* C9: the step that closes an identity's last live connection removes its
\* registry entry and its focus, and a focus appears only by a
\* joinConversation of that identity
C9_LastDisconnectClearsBoth ==
  [][ \A u \in Users :
        /\ (LiveIn(sockets, u) # {} /\ LiveIn(sockets', u) = {}) =>
              (onlineUsers'[u] = NoSocket /\ activeConversations'[u] = NoConv)
        /\ (activeConversations[u] = NoConv /\ activeConversations'[u] # NoConv) =>
              (lastOp'.op = "joinConversation" /\ lastOp'.userId = u) ]_vars

C9_Witness ==
  /\ lastOp.op = "disconnect"
  /\ lastOp.arg # NoConv
  /\ LiveOf(lastOp.userId) = {}
  /\ onlineUsers[lastOp.userId] = NoSocket
  /\ activeConversations[lastOp.userId] = NoConv

\* C10: a leaveConversation for a conversation other than the current focus
\* leaves the focus as it is
C10_StaleLeaveKeepsFocus ==
  [][ (/\ lastOp'.op = "leaveConversation"
       /\ activeConversations[lastOp'.userId] # lastOp'.arg) =>
          activeConversations'[lastOp'.userId] = activeConversations[lastOp'.userId] ]_vars

\* C11: the send path stores a message as read only if a newMessage event for
\* it reached a live connection of the recipient
C11_ReadOnlyIfPushed ==
  (lastOp.op = "sendSaved" /\ lastOp.status = "201" /\ messages[lastOp.msg].isRead) =>
      \E e \in emitted :
         /\ e.ev = "newMessage"
         /\ e.msg = lastOp.msg
         /\ sockets[e.to].st = "live"
         /\ sockets[e.to].userId = RecipientOf(lastOp.msg)

\* C12: an event a REST handler pushes to an identity reaches every live
\* connection of that identity
C12_DeliveryReachesEveryConnection ==
  \A e \in emitted :
     e.via = "rest" =>
        \A s \in LiveOf(sockets[e.to].userId) : [e EXCEPT !.to = s] \in emitted

\* C13: a send whose persistence fails reports the failure, leaves no message
\* in the store and delivers no event
C13_FailedSendLeavesNothing ==
  (lastOp.op \in {"sendCreate", "sendCheck", "sendSaved"} /\ lastOp.status = "DbError") =>
      /\ emitted = {}
      /\ lastOp.msg # NoMsg => messages[lastOp.msg].st # "stored"

\* C14: a send whose persistence succeeded answers 201 and leaves its message
\* in the store as it was, whether the notification email succeeded or failed
C14_EmailFailureDoesNotFailSend ==
  [][ (lastOp'.op \in SendOps /\ lastOp'.status \notin {"pending", "DbError"}) =>
         /\ lastOp'.status = "201"
         /\ messages'[lastOp'.msg].st = messages[lastOp'.msg].st
         /\ messages'[lastOp'.msg].sender = messages[lastOp'.msg].sender
         /\ messages'[lastOp'.msg].recipient = messages[lastOp'.msg].recipient ]_vars

\* a send completed with 201 although its email failed, its message stored
C14_Witness ==
  /\ lastOp.op \in SendOps
  /\ lastOp.status = "201"
  /\ ~lastOp.email
  /\ messages[lastOp.msg].st = "stored"

\* C15: a mark-as-read by a user who is neither of the two participants named
\* in the conversation id is rejected, changes no message and delivers no
\* messagesRead event
C15_OutsiderMarkReadRejected ==
  [][ (lastOp'.op = "markAsRead"
       /\ lastOp'.userId \notin {SplitUser1(lastOp'.arg), SplitUser2(lastOp'.arg)}) =>
         /\ lastOp'.status # "200"
         /\ messages' = messages
         /\ Receipts(emitted') = {} ]_vars

\* C16: a user whose connections have all disconnected is in neither the
\* registry nor the onlineUsers broadcast of the disconnect, and a send to
\* that user stores the message unread, answers 201 and delivers no event
C16_SendToDisconnectedUser ==
  /\ \A u \in Users :
        LiveOf(u) = {} => onlineUsers[u] = NoSocket /\ activeConversations[u] = NoConv
  /\ (lastOp.op = "disconnect" /\ LiveOf(lastOp.userId) = {}) =>
        \A e \in emitted : e.ev = "onlineUsers" => lastOp.userId \notin e.users
  /\ (lastOp.op = "sendCreate" /\ lastOp.status = "pending") =>
        /\ messages[lastOp.msg].st = "stored"
        /\ ~messages[lastOp.msg].isRead
  /\ (lastOp.op = "sendCheck" /\ LiveOf(RecipientOf(lastOp.msg)) = {}) =>
        /\ lastOp.status = "201"
        /\ lastOp.arg = NoConv
        /\ emitted = {}

\* a send from a connected user to a user whose connection has closed
\* completed with 201, its message stored unread, nothing delivered
C16_Witness ==
  /\ lastOp.op = "sendCheck"
  /\ lastOp.status = "201"
  /\ LiveOf(RecipientOf(lastOp.msg)) = {}
  /\ \E s \in SocketIds :
        sockets[s].st = "closed" /\ sockets[s].userId = RecipientOf(lastOp.msg)
  /\ LiveOf(lastOp.userId) # {}
  /\ messages[lastOp.msg].st = "stored"
  /\ ~messages[lastOp.msg].isRead
  /\ emitted = {}

C18_ConversationIdSymmetric ==
  /\ \A a \in Users, b \in Users :
        /\ ConversationId(a, b) = ConversationId(b, a)
        /\ a # b => /\ OtherUserId(ConversationId(a, b), a) = b
                    /\ OtherUserId(ConversationId(a, b), b) = a
  /\ (lastOp.op = "sendCheck" /\ lastOp.status = "pending") =>
        /\ lastOp.arg = ConversationId(SenderOf(lastOp.msg), RecipientOf(lastOp.msg))
        /\ lastOp.arg = ConversationId(RecipientOf(lastOp.msg), SenderOf(lastOp.msg))

\* a send from the participant with the greater id found the recipient
\* viewing the conversation, the focus being the id the recipient joined
C18_Witness ==
  /\ lastOp.op = "sendCheck"
  /\ lastOp.status = "pending"
  /\ SenderOf(lastOp.msg) > RecipientOf(lastOp.msg)
  /\ activeConversations[RecipientOf(lastOp.msg)] = lastOp.arg
  /\ lastOp.arg = <<RecipientOf(lastOp.msg), SenderOf(lastOp.msg)>>

\* C19: every connection and every disconnect delivers an onlineUsers event to
\* each connected socket, and nothing else, and the set the event carries is
\* the set of users that have a registry entry at that moment
C19_PresenceBroadcastOnConnectAndDisconnect ==
  lastOp.op \in {"connection", "disconnect"} =>
      /\ { e.to : e \in emitted } = Live
      /\ \A e \in emitted :
            /\ e.ev = "onlineUsers"
            /\ e.users = { u \in Users : onlineUsers[u] # NoSocket }
      /\ lastOp.op = "connection" => lastOp.sock \in { e.to : e \in emitted }

\* a disconnect was broadcast to two remaining connections, the set carried
\* being non-empty and without the user that disconnected
C19_Witness ==
  /\ lastOp.op = "disconnect"
  /\ Cardinality({ e.to : e \in emitted }) >= 2
  /\ \A e \in emitted : e.users # {} /\ lastOp.userId \notin e.users

\* C20: a delete answers 200 and emits messageDeleted only for a message that
\* is in the store when the delete lands, so of two deletes of one message at
\* most one succeeds
C20_AtMostOneDeleteSucceeds ==
  [][ (lastOp'.op = "deleteDone" /\ lastOp'.status = "200") =>
         messages[lastOp'.msg].st = "stored" ]_vars

\* C21: a typing event changes neither the registry, the focus map nor the
\* store, and its userTyping signal reaches only connections of the
\* recipient it names, so none when that recipient has no connection
C21_TypingReachesOnlyRecipient ==
  [][ lastOp'.op = "typing" =>
        /\ UNCHANGED <<onlineUsers, activeConversations, messages>>
        /\ \A e \in emitted' :
              /\ e.ev = "userTyping"
              /\ Str(sockets'[e.to].userId) = lastOp'.arg ]_vars

\* C22: a send that is suspended at one of its awaits eventually hands its
\* response to the sender, whether the recipient has a registered connection,
\* a stale one or none
C22_SendEventuallyReturns ==
  \A r \in ReqIds : (reqs[r].pc \in {"populate", "save"}) ~> (reqs[r].pc = "idle")

\* a send answered 201 after pushing newMessage to a connected recipient
C22_Witness ==
  /\ lastOp.op \in SendOps
  /\ lastOp.status = "201"
  /\ \A r \in ReqIds : reqs[r].pc = "idle"
  /\ \E e \in emitted : e.ev = "newMessage" /\ e.msg = lastOp.msg

\* C23: every newMessage event that is delivered names a message that is in
\* the store when it is pushed, whether the REST send or the socket
\* sendMessage event pushed it
C23_NewMessageIsStored ==
  \A e \in emitted : e.ev = "newMessage" => messages[e.msg].st = "stored"

\* C24: every messageDeleted event that is delivered names a message that has
\* been deleted from the store and comes from a handler run for the message's
\* sender
C24_MessageDeletedOnlyAfterDelete ==
  \A e \in emitted :
     e.ev = "messageDeleted" =>
        /\ messages[e.msg].st = "deleted"
        /\ lastOp.userId = messages[e.msg].sender

\* C25: every messagesRead event that is delivered names at least one message,
\* and each message it names is stored read and addressed to the reader the
\* event names
C25_ReadReceiptReflectsStore ==
  \A e \in emitted :
     e.ev = "messagesRead" =>
        /\ e.ids # {}
        /\ \A m \in e.ids : /\ messages[m].st = "stored"
                            /\ messages[m].isRead
                            /\ messages[m].recipient = e.by

\* C26: the sender a delivered newMessage event names is the authenticated
\* user of the request or connection that originated it, whatever the client
\* wrote in the payload
C26_SenderIsAuthenticatedUser ==
  \A e \in emitted : e.ev = "newMessage" => e.by = lastOp.userId

\* C27: a user that has a focus in activeConversations has an entry in
\* onlineUsers
C27_FocusImpliesPresence ==
  \A u \in Users : activeConversations[u] # NoConv => onlineUsers[u] # NoSocket

\* C28: every socket id held in onlineUsers is the id of a live connection of
\* the user it is stored under, and every event a REST handler pushes lands
\* on a live connection
C28_RegistryHandleIsLive ==
  /\ \A u \in Users :
        onlineUsers[u] # NoSocket =>
           /\ sockets[onlineUsers[u]].st = "live"
           /\ sockets[onlineUsers[u]].userId = u
  /\ \A e \in emitted :
        e.via = "rest" =>
           /\ sockets[e.to].st = "live"
           /\ onlineUsers[sockets[e.to].userId] = e.to

\* a REST push reached the registered connection of a user who has closed an
\* earlier connection
C28_Witness ==
  \E e \in emitted, s \in SocketIds :
     /\ e.via = "rest"
     /\ sockets[s].st = "closed"
     /\ sockets[s].userId = sockets[e.to].userId
     /\ onlineUsers[sockets[s].userId] = e.to

\* the units of product p held by the orders that are not cancelled
RECURSIVE QuantityOf(_, _)
QuantityOf(items, p) ==
  IF items = << >> THEN 0
  ELSE (IF Head(items).product = p THEN Head(items).quantity ELSE 0)
       + QuantityOf(Tail(items), p)
RECURSIVE HeldBy(_, _)
HeldBy(os, p) ==
  IF os = {} THEN 0
  ELSE LET o == CHOOSE x \in os : TRUE
       IN (IF orders[o].st = "pending" THEN QuantityOf(orders[o].items, p) ELSE 0)
          + HeldBy(os \ {o}, p)

\* C29: no product's stock is negative, and once every call has returned,
\* none of them a createOrder that failed after an earlier item, each
\* product's initial stock is its stock plus the units held by the orders
\* that are not cancelled
C29_StockConserved ==
  \A p \in Products :
     /\ products[p].stock >= 0
     /\ ( /\ \A r \in CallIds : calls[r].pc \in {"idle", "done", "failed"}
          /\ \A r \in CallIds : calls[r].pc = "failed" => calls[r].orderItems = << >> )
        => InitStock = products[p].stock + HeldBy(CallIds, p)

\* C30: after a createOrder that failed, no other call having run, every
\* product has the stock and the orderCount of the start and no order exists
C30_FailedCreateLeavesNoTrace ==
  \A r \in CallIds :
     ( /\ calls[r].kind = "create"
       /\ calls[r].pc = "failed"
       /\ \A k \in CallIds \ {r} : calls[k].pc = "idle" )
     => /\ \A p \in Products : products[p].stock = InitStock /\ products[p].orderCount = 0
        /\ \A o \in CallIds : orders[o].st = "none"

====
